---- MODULE Spec2Model ----
(***************************************************************************)
(* A model of josh/go-service-template (src/main.go): the address parser,  *)
(* the socket-activation import and explicit binding done by               *)
(* config.listeners(), and main()'s serving and shutdown coordination.     *)
(*                                                                         *)
(* Strings are TLA+ strings; a character is a string of length 1.          *)
(***************************************************************************)
EXTENDS Integers, Sequences, FiniteSets, TLC

(***************************************************************************)
(* Bounds of the model.                                                    *)
(***************************************************************************)
MaxFds == 2
MaxAddrs == 2
MaxListeners == 3
MaxConns == 2
MaxTail == 3

(***************************************************************************)
(* String helpers (package strings), on TLA+ strings.                      *)
(***************************************************************************)
CharAt(s, i) == SubSeq(s, i, i)

HasPrefix(s, p) == Len(s) >= Len(p) /\ SubSeq(s, 1, Len(p)) = p

HasSuffix(s, p) == Len(s) >= Len(p) /\ SubSeq(s, Len(s) - Len(p) + 1, Len(s)) = p

\* strings.Index for a one-character separator: the first position, or 0
IndexOf(s, c) ==
    LET hits == {i \in 1..Len(s) : CharAt(s, i) = c}
    IN  IF hits = {} THEN 0 ELSE CHOOSE i \in hits : \A j \in hits : i <= j

\* strings.LastIndex for a one-character separator: the last position, or 0
LastIndexOf(s, c) ==
    LET hits == {i \in 1..Len(s) : CharAt(s, i) = c}
    IN  IF hits = {} THEN 0 ELSE CHOOSE i \in hits : \A j \in hits : i >= j

CountOf(s, c) == Cardinality({i \in 1..Len(s) : CharAt(s, i) = c})

Contains(s, c) == IndexOf(s, c) # 0

\* strings.Cut(s, c): the text before and after the first c
CutBefore(s, c) == IF IndexOf(s, c) = 0 THEN s ELSE SubSeq(s, 1, IndexOf(s, c) - 1)

CutAfter(s, c) == IF IndexOf(s, c) = 0 THEN "" ELSE SubSeq(s, IndexOf(s, c) + 1, Len(s))

Lower == {"a","b","c","d","e","f","g","h","i","j","k","l","m",
          "n","o","p","q","r","s","t","u","v","w","x","y","z"}

Upper == {"A","B","C","D","E","F","G","H","I","J","K","L","M",
          "N","O","P","Q","R","S","T","U","V","W","X","Y","Z"}

Digits == {"0","1","2","3","4","5","6","7","8","9"}

UpperSeq == <<"A","B","C","D","E","F","G","H","I","J","K","L","M",
              "N","O","P","Q","R","S","T","U","V","W","X","Y","Z">>

LowerSeq == <<"a","b","c","d","e","f","g","h","i","j","k","l","m",
              "n","o","p","q","r","s","t","u","v","w","x","y","z">>

LowerChar(c) ==
    IF c \in Upper
    THEN LowerSeq[CHOOSE i \in 1..26 : UpperSeq[i] = c]
    ELSE c

RECURSIVE ToLower(_)
ToLower(s) == IF s = "" THEN "" ELSE LowerChar(Head(s)) \o ToLower(Tail(s))

(***************************************************************************)
(* net/url.Parse as called at main.go:25, for addresses written with       *)
(* letters, digits and the punctuation . - + : / ? # (no percent escapes,  *)
(* no userinfo, no bracketed IPv6 literal, no control characters).         *)
(***************************************************************************)
\* getScheme: the position of the colon ending the scheme, 0 when the text
\* has no scheme, -1 for "missing protocol scheme" (a leading colon)
RECURSIVE SchemeScan(_, _)
SchemeScan(s, i) ==
    IF i > Len(s) THEN 0
    ELSE LET c == CharAt(s, i)
         IN  IF c \in Lower \cup Upper THEN SchemeScan(s, i + 1)
             ELSE IF c \in Digits \cup {"+", "-", "."}
                  THEN (IF i = 1 THEN 0 ELSE SchemeScan(s, i + 1))
             ELSE IF c = ":"
                  THEN (IF i = 1 THEN -1 ELSE i)
             ELSE 0

\* validOptionalPort: empty, or a colon followed by digits only
ValidOptionalPort(p) ==
    \/ p = ""
    \/ /\ Head(p) = ":"
       /\ \A i \in 2..Len(p) : CharAt(p, i) \in Digits

\* parseHost without the bracketed form: the text after the last colon
\* must be a valid port
HostOk(h) ==
    LastIndexOf(h, ":") = 0 \/ ValidOptionalPort(SubSeq(h, LastIndexOf(h, ":"), Len(h)))

UrlErr(e) == [err |-> e, Scheme |-> "", Opaque |-> "", Host |-> "", Path |-> ""]

UrlOk(scheme, opaque, host, path) ==
    [err |-> "nil", Scheme |-> scheme, Opaque |-> opaque, Host |-> host, Path |-> path]

\* the part of url.parse after the scheme and the query are split off
ParseRest(scheme, rest) ==
    IF ~HasPrefix(rest, "/") /\ scheme # ""
    THEN UrlOk(scheme, rest, "", "")
    ELSE IF ~HasPrefix(rest, "/") /\ Contains(CutBefore(rest, "/"), ":")
    THEN UrlErr("first path segment in URL cannot contain colon")
    ELSE IF (scheme # "" \/ ~HasPrefix(rest, "///")) /\ HasPrefix(rest, "//")
    THEN LET auth0 == SubSeq(rest, 3, Len(rest))
             authority == CutBefore(auth0, "/")
             path == SubSeq(auth0, Len(authority) + 1, Len(auth0))
         IN  IF HostOk(authority)
             THEN UrlOk(scheme, "", authority, path)
             ELSE UrlErr("invalid port after host")
    ELSE UrlOk(scheme, "", "", rest)

UrlParse(rawURL) ==
    LET u == CutBefore(rawURL, "#")
        colon == SchemeScan(u, 1)
        scheme == IF colon > 0 THEN ToLower(SubSeq(u, 1, colon - 1)) ELSE ""
        rest0 == IF colon > 0 THEN SubSeq(u, colon + 1, Len(u)) ELSE u
        rest == IF HasSuffix(rest0, "?") /\ CountOf(rest0, "?") = 1
                THEN SubSeq(rest0, 1, Len(rest0) - 1)
                ELSE CutBefore(rest0, "?")
    IN  IF colon = -1 THEN UrlErr("missing protocol scheme")
        ELSE IF u = "*" THEN UrlOk("", "", "", "*")
        ELSE ParseRest(scheme, rest)

(***************************************************************************)
(* parseListenAddr (main.go:24-45)                                         *)
(***************************************************************************)
ErrInvalidFormat == "invalid address format"
ErrEmptyPath == "unix socket path cannot be empty"
ErrUnsupported == "unsupported scheme"

AddrErr(e) == [network |-> "", address |-> "", err |-> e]

\* the scheme "unix" arm of the switch (main.go:31-39)
UnixTargetPathOnly(u) == u.Path
UnixTarget(u) == IF u.Host # "" THEN u.Host \o u.Path ELSE u.Path

parseListenAddrDefaultTcp(addr) ==
    LET u == UrlParse(addr)
    IN  IF u.err # "nil" THEN AddrErr(ErrInvalidFormat)
        ELSE IF u.Scheme = "unix"
             THEN (IF UnixTarget(u) = ""
                   THEN AddrErr(ErrEmptyPath)
                   ELSE [network |-> "unix", address |-> UnixTarget(u), err |-> "nil"])
        ELSE [network |-> "tcp", address |-> addr, err |-> "nil"]

parseListenAddr(addr) ==
    LET u == UrlParse(addr)
    IN  IF u.err # "nil" THEN AddrErr(ErrInvalidFormat)
        ELSE IF u.Scheme = "unix"
             THEN (IF UnixTarget(u) = ""
                   THEN AddrErr(ErrEmptyPath)
                   ELSE [network |-> "unix", address |-> UnixTarget(u), err |-> "nil"])
        ELSE IF u.Scheme = ""
             THEN [network |-> "tcp", address |-> addr, err |-> "nil"]
        ELSE AddrErr(ErrUnsupported)

(***************************************************************************)
(* Inputs.                                                                 *)
(***************************************************************************)
RECURSIVE SeqsUpTo(_, _)
\* every sequence over S of length at most n
SeqsUpTo(S, n) ==
    IF n <= 0 THEN {<<>>}
    ELSE SeqsUpTo(S, n - 1) \cup
         {Append(q, e) : q \in {p \in SeqsUpTo(S, n - 1) : Len(p) = n - 1}, e \in S}

RECURSIVE StrsUpTo(_, _)
\* every string over the characters S of length at most n
StrsUpTo(S, n) ==
    IF n <= 0 THEN {""}
    ELSE StrsUpTo(S, n - 1) \cup
         {q \o c : q \in {p \in StrsUpTo(S, n - 1) : Len(p) = n - 1}, c \in S}

\* the documented address forms (flag help text main.go:56 and the README forms)
DocAddrs == {":8080", "127.0.0.1:80", "unix:///run/foo.sock",
             "unix://relative/path", "unix:///absolute/path"}

\* addresses given to -listen in the acquisition specification
AddrSamples == {":8080", "8080", "unix:///a", "unix://", "http://h"}

\* addresses given to -listen in the full-program specification
ServeAddrs == {"unix:///a", ":8080"}

\* addresses given to -listen in the parser specification
AddrChars == {":", "/", "a", "8", ".", "?", "#"}
AddrHeads == {"", "unix", "unix:", "unix://", "Unix://", "http://"}
ParseAddrs == DocAddrs \cup {h \o t : h \in AddrHeads, t \in StrsUpTo(AddrChars, MaxTail)}

\* entries of LISTEN_FDNAMES after strings.Split (main.go:80)
NameSamples == {"", "a", "b"}

\* os.Getpid() (main.go:103)
Getpid == 7
Pids == {0, Getpid, Getpid + 1}

\* const listenFdsStart (main.go:89)
listenFdsStart == 3

DigitSeq == <<"0","1","2","3","4","5","6","7","8","9">>
RECURSIVE Itoa(_)
\* strconv.Itoa for non-negative integers (main.go:107)
Itoa(n) == IF n < 10 THEN DigitSeq[n + 1] ELSE Itoa(n \div 10) \o DigitSeq[(n % 10) + 1]

(***************************************************************************)
(* State.                                                                  *)
(***************************************************************************)
VARIABLES
    cfg,         \* *config returned by parseConfig (main.go:47-52)
    pc,          \* main's position
    i,           \* slot index of the import loop (main.go:104)
    ai,          \* number of configured addresses processed (main.go:122)
    listeners,   \* config.listeners' local slice (main.go:92)
    parsed,      \* parseListenAddr's results, one per processed address
    ret,         \* what config.listeners returned to main (main.go:158)
    closeCount,  \* per listener ever created: how often Close was called on it
    cloexec,     \* descriptors marked close-on-exec (main.go:106)
    files,       \* per descriptor wrapped by os.NewFile: the wrapper's state
    ctxDone,     \* the NotifyContext has been cancelled by a signal
    watcher,     \* the shutdown goroutine (main.go:171-176)
    task,        \* per listener of ret.ls: its serving goroutine (main.go:182-187)
    si,          \* number of serving goroutines started (main.go:179)
    wg,          \* the WaitGroup counter
    inShutdown,  \* srv.Shutdown has been called
    tracked,     \* listeners srv.Serve is accepting on
    inflight,    \* requests being handled
    exitCode,    \* the process's exit code, -1 while it runs
    env,         \* the process environment's LISTEN_* variables (main.go:59-84)
    cfgErr       \* the error parseConfig returned to main (main.go:142)

vars == <<cfg, pc, i, ai, listeners, parsed, ret, closeCount, cloexec, files,
          ctxDone, watcher, task, si, wg, inShutdown, tracked, inflight, exitCode,
          env, cfgErr>>

acqVars == <<i, ai, listeners, parsed, ret, closeCount, cloexec, files>>
srvVars == <<watcher, task, si, wg, inShutdown, tracked, inflight>>

Configs(addrSeqs, nameSeqs) ==
    [addresses : addrSeqs,
     listenPid : Pids,
     listenFds : 0..MaxFds,
     listenFdnames : nameSeqs]

EnvNames == {"LISTEN_PID", "LISTEN_FDS", "LISTEN_FDNAMES"}

\* a variable that is not in the environment, and one that is
Absent == [set |-> FALSE, val |-> ""]
Present(v) == [set |-> TRUE, val |-> v]

\* the state main is in after a successful parseConfig and signal.NotifyContext
\* (main.go:142-149); the environment is not read again
InitWith(configs) ==
    /\ cfg \in configs
    /\ env = [v \in EnvNames |-> Absent]
    /\ cfgErr = "nil"
    /\ pc = "import"
    /\ i = 0
    /\ ai = 0
    /\ listeners = <<>>
    /\ parsed = <<>>
    /\ ret = [ls |-> <<>>, err |-> "nil"]
    /\ closeCount = <<>>
    /\ cloexec = {}
    /\ files = <<>>
    /\ ctxDone = FALSE
    /\ watcher = "none"
    /\ task = <<>>
    /\ si = 0
    /\ wg = 0
    /\ inShutdown = FALSE
    /\ tracked = {}
    /\ inflight = 0
    /\ exitCode = -1

\* the whole program, on configurations asking for at most MaxListeners listeners
Init ==
    InitWith({c \in Configs(SeqsUpTo(ServeAddrs, MaxAddrs), {<<>>, <<"a">>}) :
                 c.listenFds + Len(c.addresses) <= MaxListeners})

\* config.listeners alone, on every configuration within the bounds
InitAcquire == InitWith(Configs(SeqsUpTo(AddrSamples, MaxAddrs), SeqsUpTo(NameSamples, MaxFds)))

\* config.listeners on one address
InitParse ==
    InitWith([addresses : {<<a>> : a \in ParseAddrs},
              listenPid : {0},
              listenFds : {0},
              listenFdnames : {<<>>}])

(***************************************************************************)
(* parseConfig (main.go:54-87)                                             *)
(***************************************************************************)
DigitVal(c) == (CHOOSE n \in 1..10 : DigitSeq[n] = c) - 1

IsDigits(s) == s # "" /\ \A n \in 1..Len(s) : CharAt(s, n) \in Digits

RECURSIVE DigitsVal(_)
DigitsVal(s) ==
    IF s = "" THEN 0
    ELSE DigitsVal(SubSeq(s, 1, Len(s) - 1)) * 10 + DigitVal(CharAt(s, Len(s)))

\* strconv.Atoi (main.go:61, 71): an optional sign and decimal digits
Atoi(s) ==
    LET signed == s # "" /\ Head(s) \in {"+", "-"}
        digits == IF signed THEN Tail(s) ELSE s
    IN  IF ~IsDigits(digits) THEN [ok |-> FALSE, val |-> 0]
        ELSE [ok |-> TRUE,
              val |-> IF signed /\ Head(s) = "-" THEN 0 - DigitsVal(digits)
                      ELSE DigitsVal(digits)]

RECURSIVE Split(_, _)
\* strings.Split(s, sep) for a one-character separator (main.go:80)
Split(s, sep) ==
    IF IndexOf(s, sep) = 0 THEN <<s>>
    ELSE <<CutBefore(s, sep)>> \o Split(CutAfter(s, sep), sep)

\* os.Getenv: the empty string for a variable that is not set
Getenv(e, name) == IF e[name].set THEN e[name].val ELSE ""

\* os.Unsetenv
Unsetenv(e, name) == [e EXCEPT ![name] = Absent]

\* values the supervisor may have left in the three variables
PidValues == {Absent, Present(""), Present(Itoa(Getpid)), Present(Itoa(Getpid + 1)),
              Present("x")}
FdsValues == {Absent, Present(""), Present("x")} \cup {Present(Itoa(n)) : n \in 0..MaxFds}
FdnamesValues == {Absent, Present(""), Present("a"), Present("a:b"), Present(":b")}

\* main before parseConfig reads the environment; flag.Parse has filled the
\* addresses (main.go:55-57)
InitConfig ==
    /\ cfg \in [addresses : SeqsUpTo({"unix:///a"}, 1),
                listenPid : {0},
                listenFds : {0},
                listenFdnames : {<<>>}]
    /\ env \in [EnvNames -> PidValues \cup FdsValues \cup FdnamesValues]
    /\ env["LISTEN_PID"] \in PidValues
    /\ env["LISTEN_FDS"] \in FdsValues
    /\ env["LISTEN_FDNAMES"] \in FdnamesValues
    /\ cfgErr = "nil"
    /\ pc = "cfgPid"
    /\ i = 0
    /\ ai = 0
    /\ listeners = <<>>
    /\ parsed = <<>>
    /\ ret = [ls |-> <<>>, err |-> "nil"]
    /\ closeCount = <<>>
    /\ cloexec = {}
    /\ files = <<>>
    /\ ctxDone = FALSE
    /\ watcher = "none"
    /\ task = <<>>
    /\ si = 0
    /\ wg = 0
    /\ inShutdown = FALSE
    /\ tracked = {}
    /\ inflight = 0
    /\ exitCode = -1

cfgFrame == <<i, ai, listeners, parsed, ret, closeCount, cloexec, files,
              ctxDone, watcher, task, si, wg, inShutdown, tracked, inflight, exitCode>>

\* LISTEN_PID is read, converted and unset (main.go:59-68)
ParsePid ==
    /\ pc = "cfgPid"
    /\ LET pid == Getenv(env, "LISTEN_PID")
       IN  IF pid = ""
           THEN /\ pc' = "cfgFds"
                /\ UNCHANGED <<cfg, env, cfgErr>>
           ELSE IF ~Atoi(pid).ok
           THEN /\ cfgErr' = "invalid LISTEN_PID"
                /\ pc' = "cfgReturned"
                /\ UNCHANGED <<cfg, env>>
           ELSE /\ cfg' = [cfg EXCEPT !.listenPid = Atoi(pid).val]
                /\ env' = Unsetenv(env, "LISTEN_PID")
                /\ pc' = "cfgFds"
                /\ UNCHANGED cfgErr
    /\ UNCHANGED cfgFrame

\* LISTEN_FDS is read, converted and unset (main.go:69-78)
ParseFds ==
    /\ pc = "cfgFds"
    /\ LET fds == Getenv(env, "LISTEN_FDS")
       IN  IF fds = ""
           THEN /\ pc' = "cfgNames"
                /\ UNCHANGED <<cfg, env, cfgErr>>
           ELSE IF ~Atoi(fds).ok
           THEN /\ cfgErr' = "invalid LISTEN_FDS"
                /\ pc' = "cfgReturned"
                /\ UNCHANGED <<cfg, env>>
           ELSE /\ cfg' = [cfg EXCEPT !.listenFds = Atoi(fds).val]
                /\ env' = Unsetenv(env, "LISTEN_FDS")
                /\ pc' = "cfgNames"
                /\ UNCHANGED cfgErr
    /\ UNCHANGED cfgFrame

\* LISTEN_FDNAMES is read, split and unset, and parseConfig returns
\* (main.go:79-86)
ParseFdnames ==
    /\ pc = "cfgNames"
    /\ LET fdnames == Getenv(env, "LISTEN_FDNAMES")
       IN  IF fdnames = ""
           THEN UNCHANGED <<cfg, env>>
           ELSE /\ cfg' = [cfg EXCEPT !.listenFdnames = Split(fdnames, ":")]
                /\ env' = Unsetenv(env, "LISTEN_FDNAMES")
    /\ pc' = "cfgReturned"
    /\ UNCHANGED cfgErr
    /\ UNCHANGED cfgFrame

\* a configuration error: os.Exit(1) (main.go:143-146)
MainConfigExit ==
    /\ pc = "cfgReturned"
    /\ cfgErr # "nil"
    /\ pc' = "exited"
    /\ exitCode' = 1
    /\ UNCHANGED <<cfg, env, cfgErr>>
    /\ UNCHANGED <<i, ai, listeners, parsed, ret, closeCount, cloexec, files,
                   ctxDone, watcher, task, si, wg, inShutdown, tracked, inflight>>

\* the configuration is accepted; the signal context and the handler are
\* made and main goes on to config.listeners (main.go:148-158)
MainConfigOk ==
    /\ pc = "cfgReturned"
    /\ cfgErr = "nil"
    /\ pc' = "import"
    /\ UNCHANGED <<cfg, env, cfgErr>>
    /\ UNCHANGED cfgFrame

NextConfig == ParsePid \/ ParseFds \/ ParseFdnames \/ MainConfigExit \/ MainConfigOk
SpecConfig == InitConfig /\ [][NextConfig]_vars

(***************************************************************************)
(* config.listeners (main.go:91-139)                                       *)
(***************************************************************************)
\* the guard of the import (main.go:103)
ActiveAnyPid(c) == c.listenPid # 0
Active(c) == c.listenPid # 0 /\ c.listenPid = Getpid

\* the name given to slot n's descriptor (main.go:107-110)
FdNameByListener(c, n) ==
    IF Len(listeners) < Len(c.listenFdnames) /\ Len(c.listenFdnames[Len(listeners) + 1]) > 0
    THEN c.listenFdnames[Len(listeners) + 1]
    ELSE "LISTEN_FD_" \o Itoa(listenFdsStart + n)

FdName(c, n) ==
    IF n < Len(c.listenFdnames) /\ Len(c.listenFdnames[n + 1]) > 0
    THEN c.listenFdnames[n + 1]
    ELSE "LISTEN_FD_" \o Itoa(listenFdsStart + n)

FdListener(fd, name) ==
    [src |-> "fd", idx |-> fd, name |-> name, network |-> "", address |-> ""]

AddrListener(n, network, address) ==
    [src |-> "addr", idx |-> n, name |-> "", network |-> network, address |-> address]

SeqToSet(q) == {q[n] : n \in 1..Len(q)}

\* listeners = append(listeners, l) (main.go:113, 135)
PrependListener(ls, l) == <<l>> \o ls
AppendListener(ls, l) == Append(ls, l)

\* a listener was created: it has not been closed yet
Created(cc, l) == [m \in DOMAIN cc \cup {l} |-> IF m \in DOMAIN cc THEN cc[m] ELSE 0]

\* Close is called on every listener of ls
CloseAll(cc, ls) == [m \in DOMAIN cc |-> IF m \in SeqToSet(ls) THEN cc[m] + 1 ELSE cc[m]]

\* the deferred function (main.go:95-101), run when the call returns err
RollbackAlways(cc, ls, err) == CloseAll(cc, ls)
RollbackErrShadowed(cc, ls, err) == cc
Rollback(cc, ls, err) == IF err # "nil" THEN CloseAll(cc, ls) ELSE cc

\* return nil, err (main.go:116, 126, 133), the deferred function included
ReturnErrNoReturn(cc, ls, err) ==
    /\ ret' = [ls |-> <<>>, err |-> err]
    /\ closeCount' = cc
    /\ pc' = pc

ReturnErr(cc, ls, err) ==
    /\ ret' = [ls |-> <<>>, err |-> err]
    /\ closeCount' = Rollback(cc, ls, err)
    /\ pc' = "returned"

\* the os.File made by os.NewFile for a descriptor (main.go:111) and what
\* became of it: wrapped tells whether net.FileListener took the descriptor
File(fd, name, wrapped, state) ==
    [fd |-> fd, name |-> name, wrapped |-> wrapped, state |-> state]

\* net.FileListener fails (main.go:112, 118-119): the slot is skipped, f is
\* not closed and the loop goes on
SkipSlotFatal(fd, name) ==
    /\ files' = Append(files, File(fd, name, FALSE, "open"))
    /\ i' = i
    /\ listeners' = listeners
    /\ ReturnErr(closeCount, listeners, "failed to close file")

SkipSlot(fd, name) ==
    /\ files' = Append(files, File(fd, name, FALSE, "open"))
    /\ i' = i + 1
    /\ UNCHANGED <<listeners, closeCount, pc, ret>>

\* one iteration of the import loop (main.go:104-119)
ImportSlot ==
    /\ pc = "import"
    /\ Active(cfg)
    /\ i < cfg.listenFds
    /\ LET fd == listenFdsStart + i
           name == FdName(cfg, i)
           l == FdListener(fd, name)
       IN  /\ cloexec' = cloexec \cup {fd}
           /\ \/ \* net.FileListener succeeds, f.Close succeeds
                 /\ listeners' = AppendListener(listeners, l)
                 /\ closeCount' = Created(closeCount, l)
                 /\ files' = Append(files, File(fd, name, TRUE, "closed"))
                 /\ i' = i + 1
                 /\ UNCHANGED <<pc, ret>>
              \/ \* net.FileListener succeeds, f.Close fails
                 /\ listeners' = AppendListener(listeners, l)
                 /\ files' = Append(files, File(fd, name, TRUE, "closeFailed"))
                 /\ i' = i
                 /\ ReturnErr(Created(closeCount, l), AppendListener(listeners, l),
                              "failed to close file")
              \/ SkipSlot(fd, name)
    /\ UNCHANGED <<env, cfgErr, cfg, ai, parsed, ctxDone, exitCode>>
    /\ UNCHANGED srvVars

\* the garbage collector runs the finalizer os.NewFile set on an os.File that
\* was dropped without Close (main.go:111): the descriptor is closed then
Finalize(k) ==
    /\ pc # "exited"
    /\ files[k].state = "open"
    /\ files' = [files EXCEPT ![k].state = "closed"]
    /\ UNCHANGED <<env, cfgErr, cfg, pc, ctxDone, exitCode>>
    /\ UNCHANGED <<i, ai, listeners, parsed, ret, closeCount, cloexec>>
    /\ UNCHANGED srvVars

\* the import is over, or is not done at all (main.go:103-104)
ImportDone ==
    /\ pc = "import"
    /\ ~Active(cfg) \/ i >= cfg.listenFds
    /\ pc' = "bind"
    /\ UNCHANGED <<env, cfgErr, cfg, ctxDone, exitCode>>
    /\ UNCHANGED acqVars
    /\ UNCHANGED srvVars

\* one iteration of the loop over the addresses (main.go:122-136)
BindAddr ==
    /\ pc = "bind"
    /\ ai < Len(cfg.addresses)
    /\ LET addr == cfg.addresses[ai + 1]
           r == parseListenAddr(addr)
           l == AddrListener(ai + 1, r.network, r.address)
       IN  /\ parsed' = Append(parsed, r)
           /\ IF r.err # "nil"
              THEN /\ ReturnErr(closeCount, listeners, "invalid listen address")
                   /\ UNCHANGED <<listeners, ai>>
              ELSE \/ \* net.Listen succeeds
                      /\ listeners' = AppendListener(listeners, l)
                      /\ closeCount' = Created(closeCount, l)
                      /\ ai' = ai + 1
                      /\ UNCHANGED <<pc, ret>>
                   \/ \* net.Listen fails
                      /\ ReturnErr(closeCount, listeners, "failed to listen")
                      /\ UNCHANGED <<listeners, ai>>
    /\ UNCHANGED <<env, cfgErr, cfg, i, cloexec, files, ctxDone, exitCode>>
    /\ UNCHANGED srvVars

\* return listeners, nil (main.go:138), the deferred function included
BindDone ==
    /\ pc = "bind"
    /\ ai = Len(cfg.addresses)
    /\ ret' = [ls |-> listeners, err |-> "nil"]
    /\ closeCount' = Rollback(closeCount, listeners, "nil")
    /\ pc' = "returned"
    /\ UNCHANGED <<env, cfgErr, cfg, i, ai, listeners, parsed, cloexec, files, ctxDone, exitCode>>
    /\ UNCHANGED srvVars

(***************************************************************************)
(* main (main.go:141-192)                                                  *)
(***************************************************************************)
Running == exitCode = -1

\* os.Exit(1) after a failed or empty acquisition (main.go:159-167)
MainCheckExit ==
    /\ pc = "returned"
    /\ ret.err # "nil" \/ Len(ret.ls) = 0
    /\ pc' = "exited"
    /\ exitCode' = 1
    /\ UNCHANGED <<env, cfgErr, cfg, ctxDone>>
    /\ UNCHANGED acqVars
    /\ UNCHANGED srvVars

StartWatcherUnchecked ==
    /\ pc = "returned"
    /\ ret.err = "nil"
    /\ watcher' = "waiting"
    /\ task' = [n \in 1..Len(ret.ls) |-> "none"]
    /\ pc' = "spawn"
    /\ UNCHANGED <<env, cfgErr, cfg, ctxDone, exitCode, si, wg, inShutdown, tracked, inflight>>
    /\ UNCHANGED acqVars

\* the server is made and the shutdown goroutine started (main.go:169-176)
StartWatcher ==
    /\ pc = "returned"
    /\ ret.err = "nil"
    /\ Len(ret.ls) # 0
    /\ watcher' = "waiting"
    /\ task' = [n \in 1..Len(ret.ls) |-> "none"]
    /\ pc' = "spawn"
    /\ UNCHANGED <<env, cfgErr, cfg, ctxDone, exitCode, si, wg, inShutdown, tracked, inflight>>
    /\ UNCHANGED acqVars

\* one iteration of the loop starting the serving goroutines (main.go:179-188)
SpawnTask ==
    /\ pc = "spawn"
    /\ si < Len(ret.ls)
    /\ wg' = wg + 1
    /\ task' = [task EXCEPT ![si + 1] = "start"]
    /\ si' = si + 1
    /\ UNCHANGED <<env, cfgErr, cfg, pc, ctxDone, exitCode, watcher, inShutdown, tracked, inflight>>
    /\ UNCHANGED acqVars

\* <-ctx.Done() in main (main.go:190)
MainAwaitCtxNoWait ==
    /\ pc = "spawn"
    /\ si = Len(ret.ls)
    /\ pc' = "wait"
    /\ UNCHANGED <<env, cfgErr, cfg, ctxDone, exitCode>>
    /\ UNCHANGED acqVars
    /\ UNCHANGED srvVars

MainAwaitCtx ==
    /\ pc = "spawn"
    /\ si = Len(ret.ls)
    /\ ctxDone
    /\ pc' = "wait"
    /\ UNCHANGED <<env, cfgErr, cfg, ctxDone, exitCode>>
    /\ UNCHANGED acqVars
    /\ UNCHANGED srvVars

MainExitNoWait ==
    /\ pc = "wait"
    /\ pc' = "exited"
    /\ exitCode' = 0
    /\ UNCHANGED <<env, cfgErr, cfg, ctxDone>>
    /\ UNCHANGED acqVars
    /\ UNCHANGED srvVars

\* wg.Wait() returns and main returns (main.go:191-192)
MainExit ==
    /\ pc = "wait"
    /\ wg = 0
    /\ pc' = "exited"
    /\ exitCode' = 0
    /\ UNCHANGED <<env, cfgErr, cfg, ctxDone>>
    /\ UNCHANGED acqVars
    /\ UNCHANGED srvVars

\* SIGINT or SIGTERM is delivered: the NotifyContext is cancelled (main.go:148)
Signal ==
    /\ Running
    /\ ~ctxDone
    /\ ctxDone' = TRUE
    /\ UNCHANGED <<env, cfgErr, cfg, pc, exitCode>>
    /\ UNCHANGED acqVars
    /\ UNCHANGED srvVars

\* the listeners srv.Shutdown closes: those srv.Serve is tracking
CloseTracked(cc, ls, tr) ==
    [m \in DOMAIN cc |->
        IF \E n \in tr : ls[n] = m /\ cc[m] = 0 THEN cc[m] + 1 ELSE cc[m]]

WatcherNoShutdown ==
    /\ Running
    /\ watcher = "waiting"
    /\ ctxDone
    /\ watcher' = "done"
    /\ UNCHANGED <<env, cfgErr, cfg, pc, ctxDone, exitCode, task, si, wg, inShutdown, tracked, inflight>>
    /\ UNCHANGED acqVars

\* the shutdown goroutine passes <-ctx.Done() and calls srv.Shutdown, which
\* marks the server as shutting down and closes its listeners (main.go:172-173)
WatcherShutdown ==
    /\ Running
    /\ watcher = "waiting"
    /\ ctxDone
    /\ inShutdown' = TRUE
    /\ closeCount' = CloseTracked(closeCount, ret.ls, tracked)
    /\ watcher' = "draining"
    /\ UNCHANGED <<env, cfgErr, cfg, pc, ctxDone, exitCode, task, si, wg, tracked, inflight>>
    /\ UNCHANGED <<i, ai, listeners, parsed, ret, cloexec, files>>

\* srv.Shutdown returns: every Serve call has returned and no request is
\* being handled (main.go:173-175)
WatcherDone ==
    /\ Running
    /\ watcher = "draining"
    /\ tracked = {}
    /\ inflight = 0
    /\ watcher' = "done"
    /\ UNCHANGED <<env, cfgErr, cfg, pc, ctxDone, exitCode, task, si, wg, inShutdown, tracked, inflight>>
    /\ UNCHANGED acqVars

\* Close through Serve's once-only wrapper of the listener
CloseOnce(cc, l) == [cc EXCEPT ![l] = IF @ = 0 THEN 1 ELSE @]

\* a serving goroutine calls srv.Serve (main.go:184): the listener is tracked,
\* or, the server shutting down already, Serve closes it and returns
\* ErrServerClosed, and the goroutine ends (main.go:183)
ServeBegin(n) ==
    /\ Running
    /\ task[n] = "start"
    /\ IF inShutdown
       THEN /\ task' = [task EXCEPT ![n] = "closed"]
            /\ closeCount' = CloseOnce(closeCount, ret.ls[n])
            /\ wg' = wg - 1
            /\ UNCHANGED tracked
       ELSE /\ task' = [task EXCEPT ![n] = "serving"]
            /\ tracked' = tracked \cup {n}
            /\ UNCHANGED <<closeCount, wg>>
    /\ UNCHANGED <<env, cfgErr, cfg, pc, ctxDone, exitCode, watcher, si, inShutdown, inflight>>
    /\ UNCHANGED <<i, ai, listeners, parsed, ret, cloexec, files>>

\* whether Accept on listener n can return a connection
CanAccept(n) == task[n] = "serving" /\ closeCount[ret.ls[n]] = 0

\* srv.Serve accepts a connection and its request starts being handled
ServeAccept(n) ==
    /\ Running
    /\ CanAccept(n)
    /\ inflight < MaxConns
    /\ inflight' = inflight + 1
    /\ UNCHANGED <<env, cfgErr, cfg, pc, ctxDone, exitCode, watcher, task, si, wg, inShutdown, tracked>>
    /\ UNCHANGED acqVars

\* the handler returns (main.go:151-156)
RequestDone ==
    /\ Running
    /\ inflight > 0
    /\ inflight' = inflight - 1
    /\ UNCHANGED <<env, cfgErr, cfg, pc, ctxDone, exitCode, watcher, task, si, wg, inShutdown, tracked>>
    /\ UNCHANGED acqVars

ServeFailCancels(n) ==
    /\ Running
    /\ task[n] = "serving"
    /\ ~inShutdown
    /\ task' = [task EXCEPT ![n] = "failed"]
    /\ closeCount' = CloseOnce(closeCount, ret.ls[n])
    /\ tracked' = tracked \ {n}
    /\ wg' = wg - 1
    /\ ctxDone' = TRUE
    /\ UNCHANGED <<env, cfgErr, cfg, pc, exitCode, watcher, si, inShutdown, inflight>>
    /\ UNCHANGED <<i, ai, listeners, parsed, ret, cloexec, files>>

\* Accept fails while the server is not shutting down: srv.Serve returns the
\* error, which is logged, and the goroutine ends (main.go:183-186)
ServeFail(n) ==
    /\ Running
    /\ task[n] = "serving"
    /\ ~inShutdown
    /\ task' = [task EXCEPT ![n] = "failed"]
    /\ closeCount' = CloseOnce(closeCount, ret.ls[n])
    /\ tracked' = tracked \ {n}
    /\ wg' = wg - 1
    /\ UNCHANGED <<env, cfgErr, cfg, pc, ctxDone, exitCode, watcher, si, inShutdown, inflight>>
    /\ UNCHANGED <<i, ai, listeners, parsed, ret, cloexec, files>>

\* srv.Serve returns ErrServerClosed after Shutdown closed its listener, and
\* the goroutine ends (main.go:183-184)
ServeClosedNoDone(n) ==
    /\ Running
    /\ task[n] = "serving"
    /\ inShutdown
    /\ task' = [task EXCEPT ![n] = "closed"]
    /\ closeCount' = CloseOnce(closeCount, ret.ls[n])
    /\ tracked' = tracked \ {n}
    /\ wg' = wg
    /\ UNCHANGED <<env, cfgErr, cfg, pc, ctxDone, exitCode, watcher, si, inShutdown, inflight>>
    /\ UNCHANGED <<i, ai, listeners, parsed, ret, cloexec, files>>

ServeClosed(n) ==
    /\ Running
    /\ task[n] = "serving"
    /\ inShutdown
    /\ task' = [task EXCEPT ![n] = "closed"]
    /\ closeCount' = CloseOnce(closeCount, ret.ls[n])
    /\ tracked' = tracked \ {n}
    /\ wg' = wg - 1
    /\ UNCHANGED <<env, cfgErr, cfg, pc, ctxDone, exitCode, watcher, si, inShutdown, inflight>>
    /\ UNCHANGED <<i, ai, listeners, parsed, ret, cloexec, files>>

Acquire ==
    \/ ImportSlot
    \/ ImportDone
    \/ BindAddr
    \/ BindDone
    \/ \E k \in DOMAIN files : Finalize(k)

Next ==
    \/ Acquire
    \/ MainCheckExit
    \/ StartWatcher
    \/ SpawnTask
    \/ MainAwaitCtx
    \/ MainExit
    \/ Signal
    \/ WatcherShutdown
    \/ WatcherDone
    \/ \E n \in DOMAIN task : ServeBegin(n)
    \/ \E n \in DOMAIN task : ServeAccept(n)
    \/ RequestDone
    \/ \E n \in DOMAIN task : ServeFail(n)
    \/ \E n \in DOMAIN task : ServeClosed(n)

Spec == Init /\ [][Next]_vars

\* the Go scheduler runs every goroutine that can take a step: main
\* (main.go:179-191), the shutdown goroutine (main.go:171-176), the serving
\* goroutines (main.go:182-187) and the handlers (main.go:151-156); signals,
\* connections and Accept failures come from outside and are not owed
Fairness ==
    /\ WF_vars(SpawnTask)
    /\ WF_vars(MainAwaitCtx)
    /\ WF_vars(MainExit)
    /\ WF_vars(WatcherShutdown)
    /\ WF_vars(WatcherDone)
    /\ WF_vars(\E n \in DOMAIN task : ServeBegin(n))
    /\ WF_vars(\E n \in DOMAIN task : ServeClosed(n))
    /\ WF_vars(RequestDone)

SpecLive == Init /\ [][Next]_vars /\ Fairness

NextAcquire == Acquire \/ MainCheckExit
SpecAcquire == InitAcquire /\ [][NextAcquire]_vars

NextParse == ImportDone \/ BindAddr \/ BindDone
SpecParse == InitParse /\ [][NextParse]_vars
(***************************************************************************)
(* Properties.                                                             *)
(***************************************************************************)
Returned == pc \in {"returned", "spawn", "wait", "exited"}

CreatedListeners == DOMAIN closeCount

\* C1: whenever config.listeners returns an error, every listener created
\* during the call has been closed exactly once and none is returned.
C1_RollbackClosesAll ==
    (pc \in {"returned", "exited"} /\ ret.err # "nil") =>
        /\ \A l \in CreatedListeners : closeCount[l] = 1
        /\ SeqToSet(listeners) = CreatedListeners
        /\ ret.ls = <<>>

\* a bind failure after an imported and a bound listener were created
C1_Witness ==
    /\ pc = "returned"
    /\ ret.err = "failed to listen"
    /\ \E l \in CreatedListeners : l.src = "fd"
    /\ \E l \in CreatedListeners : l.src = "addr"

\* C2: the process does not exit with code 0 before the graceful drain
\* started by srv.Shutdown is complete: when main returns after srv.Shutdown
\* was called and every serving goroutine observed it, no request is still
\* being handled.
C2_ExitAfterDrain ==
    (/\ pc = "exited"
     /\ exitCode = 0
     /\ watcher \in {"draining", "done"}
     /\ \A n \in DOMAIN task : task[n] = "closed") => inflight = 0

\* C3: once serving has started, the process has exited only if every
\* serving goroutine has returned.
C3_ExitAfterTasks ==
    (pc = "exited" /\ watcher # "none") =>
        \A n \in DOMAIN task : task[n] \in {"closed", "failed"}

\* the process exited after one task failed on its own and one saw the shutdown
C3_Witness ==
    /\ pc = "exited"
    /\ exitCode = 0
    /\ \E n \in DOMAIN task : task[n] = "failed"
    /\ \E n \in DOMAIN task : task[n] = "closed"

ShutdownRequested == watcher \in {"draining", "done"}

IsOrdered(ls) ==
    \A a, b \in 1..Len(ls) :
        a < b => /\ ls[a].src = "addr" => ls[b].src = "addr"
                 /\ ls[a].src = ls[b].src => ls[a].idx < ls[b].idx

\* C5: a successful config.listeners returns the imported listeners in
\* ascending descriptor order, from descriptor 3 on, followed by one bound
\* listener per configured address in the order of the addresses.
C5_ImportedThenBound ==
    (pc = "returned" /\ ret.err = "nil") =>
        /\ IsOrdered(ret.ls)
        /\ \A n \in 1..Len(ret.ls) :
              ret.ls[n].src = "fd" =>
                  ret.ls[n].idx \in listenFdsStart..(listenFdsStart + cfg.listenFds - 1)
        /\ LET bound == SelectSeq(ret.ls, LAMBDA l : l.src = "addr")
           IN  /\ Len(bound) = Len(cfg.addresses)
               /\ \A n \in 1..Len(bound) :
                     /\ bound[n].idx = n
                     /\ bound[n].network = parseListenAddr(cfg.addresses[n]).network
                     /\ bound[n].address = parseListenAddr(cfg.addresses[n]).address

\* two imported listeners and two bound ones are returned
C5_Witness ==
    /\ pc = "returned"
    /\ ret.err = "nil"
    /\ Cardinality({n \in 1..Len(ret.ls) : ret.ls[n].src = "fd"}) >= 2
    /\ Cardinality({n \in 1..Len(ret.ls) : ret.ls[n].src = "addr"}) >= 2

\* C6: when listenPid is 0 or differs from the process id, no descriptor is
\* marked close-on-exec, wrapped or closed, no listener is imported, and the
\* import raises no error.
C6_InactiveImportIsNoOp ==
    (cfg.listenPid = 0 \/ cfg.listenPid # Getpid) =>
        /\ cloexec = {}
        /\ files = <<>>
        /\ \A l \in CreatedListeners : l.src # "fd"
        /\ ret.err # "failed to close file"
        /\ pc # "import" => i = 0

\* a foreign LISTEN_PID with descriptors and names announced: the call
\* returned the bound listeners alone
C6_Witness ==
    /\ cfg.listenPid \notin {0, Getpid}
    /\ cfg.listenFds = MaxFds
    /\ Len(cfg.listenFdnames) > 0
    /\ pc = "returned"
    /\ ret.err = "nil"
    /\ Len(ret.ls) = Len(cfg.addresses)
    /\ Len(ret.ls) > 0

\* C7: when the acquisition succeeds with no listener, the process exits
\* with code 1 and starts neither the shutdown goroutine nor a serving one.
C7_EmptySetExitsOne ==
    (Returned /\ ret.err = "nil" /\ Len(ret.ls) = 0) =>
        /\ pc \in {"returned", "exited"}
        /\ pc = "exited" => exitCode = 1
        /\ watcher = "none"
        /\ task = <<>>
        /\ si = 0
        /\ wg = 0
        /\ ~inShutdown

\* the process exited on an empty listener set
C7_Witness ==
    /\ pc = "exited"
    /\ exitCode = 1
    /\ ret.err = "nil"
    /\ Len(ret.ls) = 0

Processed == 1..Len(parsed)

TcpResult(addr) == [network |-> "tcp", address |-> addr, err |-> "nil"]

\* C8: every address without a scheme, the raw TCP forms ":8080" and
\* "127.0.0.1:80" included, is parsed to transport "tcp" with the address
\* itself as the target.
C8_NoSchemeIsTcp ==
    \A n \in Processed :
        LET addr == cfg.addresses[n]
            u == UrlParse(addr)
        IN  /\ (u.err = "nil" /\ u.Scheme = "") => parsed[n] = TcpResult(addr)
            /\ addr \in {":8080", "127.0.0.1:80"} => parsed[n] = TcpResult(addr)

\* C9: an address that parses as a URI of scheme unix is parsed to transport
\* "unix" with the URI host followed by the URI path as the target when that
\* is not empty, and to an error when it is; unix://relative/path gives
\* relative/path and unix:///absolute/path gives /absolute/path.
C9_UnixTarget ==
    \A n \in Processed :
        LET addr == cfg.addresses[n]
            u == UrlParse(addr)
        IN  /\ (u.err = "nil" /\ u.Scheme = "unix") =>
                  IF u.Host \o u.Path # ""
                  THEN parsed[n] = [network |-> "unix", address |-> u.Host \o u.Path,
                                    err |-> "nil"]
                  ELSE parsed[n].err # "nil" /\ parsed[n].network = ""
            /\ addr = "unix://relative/path" =>
                  parsed[n] = [network |-> "unix", address |-> "relative/path", err |-> "nil"]
            /\ addr = "unix:///absolute/path" =>
                  parsed[n] = [network |-> "unix", address |-> "/absolute/path", err |-> "nil"]

\* a unix address with a host part has been parsed
C9_Witness ==
    \E n \in Processed :
        /\ UrlParse(cfg.addresses[n]).Host # ""
        /\ UrlParse(cfg.addresses[n]).Path # ""
        /\ parsed[n].network = "unix"

\* C10: an address that parses as a URI of a scheme other than unix or none
\* is refused with the unsupported-scheme error, without transport or target,
\* and config.listeners binds no listener for it.
C10_OtherSchemeRefused ==
    \A n \in Processed :
        LET u == UrlParse(cfg.addresses[n])
        IN  (u.err = "nil" /\ u.Scheme \notin {"unix", ""}) =>
                /\ parsed[n] = [network |-> "", address |-> "", err |-> ErrUnsupported]
                /\ \A l \in CreatedListeners : ~(l.src = "addr" /\ l.idx = n)
                /\ pc = "returned"
                /\ ret = [ls |-> <<>>, err |-> "invalid listen address"]

\* an address of scheme http was refused and config.listeners returned
C10_Witness ==
    /\ pc = "returned"
    /\ \E n \in Processed :
          /\ UrlParse(cfg.addresses[n]).Scheme = "http"
          /\ parsed[n].err = ErrUnsupported
ConfigRead == pc \notin {"cfgPid", "cfgFds", "cfgNames"}

\* C11: once parseConfig has returned, none of LISTEN_PID, LISTEN_FDS and
\* LISTEN_FDNAMES is set in the environment, whatever the three held.
C11_EnvCleared ==
    ConfigRead => \A v \in EnvNames : ~env[v].set

\* C12: when a serving goroutine ends on an error of its own, no other
\* serving goroutine changes state, no other listener is closed, and neither
\* the signal context nor the shutdown goroutine moves; a listener being
\* served stays open as long as srv.Shutdown has not been called.
C12_FailureLeavesSiblings ==
    /\ [](\A m \in DOMAIN task :
             (task[m] = "serving" /\ ~inShutdown) => closeCount[ret.ls[m]] = 0)
    /\ [][\A n \in DOMAIN task :
             (task[n] = "serving" /\ task'[n] = "failed") =>
                 /\ \A m \in DOMAIN task \ {n} :
                       /\ task'[m] = task[m]
                       /\ closeCount'[ret.ls[m]] = closeCount[ret.ls[m]]
                 /\ inShutdown' = inShutdown
                 /\ watcher' = watcher
                 /\ ctxDone' = ctxDone
                 /\ pc' = pc]_vars

\* one serving goroutine has failed, no signal has come, and a sibling still
\* serves an open listener
C12_Witness ==
    /\ ~ctxDone
    /\ watcher = "waiting"
    /\ \E n \in DOMAIN task : task[n] = "failed"
    /\ \E m \in DOMAIN task : CanAccept(m) /\ inflight < MaxConns

\* the name the claim gives to slot n (0-based)
SlotName(n) ==
    IF n + 1 \in DOMAIN cfg.listenFdnames /\ cfg.listenFdnames[n + 1] # ""
    THEN cfg.listenFdnames[n + 1]
    ELSE "LISTEN_FD_" \o Itoa(listenFdsStart + n)

ImportedNames == [n \in 1..Len(SelectSeq(listeners, LAMBDA l : l.src = "fd")) |->
                     SelectSeq(listeners, LAMBDA l : l.src = "fd")[n].name]

\* C13: slot n, descriptor 3+n, is named listenFdnames[n] when that entry
\* exists and is not empty and LISTEN_FD_<3+n> otherwise, whether or not
\* earlier slots were skipped; LISTEN_FDS=2 with LISTEN_FDNAMES=a:b and two
\* listening sockets gives the listeners "a" and "b" in that order.
C13_SlotNames ==
    /\ \A k \in 1..Len(files) :
          /\ files[k].fd = listenFdsStart + (k - 1)
          /\ files[k].name = SlotName(k - 1)
          /\ (k = 1 /\ (cfg.listenFdnames = <<>> \/ cfg.listenFdnames[1] = "")) =>
                 files[k].name = "LISTEN_FD_3"
          /\ (k = 2 /\ Len(cfg.listenFdnames) < 2) => files[k].name = "LISTEN_FD_4"
    /\ \A l \in CreatedListeners :
          l.src = "fd" => l.name = SlotName(l.idx - listenFdsStart)
    /\ (/\ cfg.listenFds = 2
        /\ cfg.listenFdnames = <<"a", "b">>
        /\ Len(files) = 2
        /\ files[1].wrapped
        /\ files[2].wrapped
        /\ pc # "import") => ImportedNames = <<"a", "b">>

\* slot 0 was skipped and slot 1, named by the second entry, was imported
C13_Witness ==
    /\ cfg.listenFdnames = <<"a", "b">>
    /\ Len(files) = 2
    /\ ~files[1].wrapped
    /\ files[2].wrapped
    /\ ImportedNames = <<"b">>
    /\ pc = "returned"
    /\ ret.err = "nil"

\* C14: when the import loop is over, no slot it processed still has an open
\* os.File wrapper: each wrapper has had Close called on it, whether the
\* descriptor was wrapped as a listener or the slot was skipped.
C14_WrapperReleased ==
    pc # "import" => \A k \in DOMAIN files : files[k].state # "open"

Skipped == {k \in DOMAIN files : ~files[k].wrapped}

Wrapped == {k \in DOMAIN files : files[k].wrapped}

ImportedFds == [n \in 1..Len(SelectSeq(ret.ls, LAMBDA l : l.src = "fd")) |->
                   SelectSeq(ret.ls, LAMBDA l : l.src = "fd")[n].idx]

WrappedFds == [n \in 1..Len(SelectSeq(files, LAMBDA f : f.wrapped)) |->
                  SelectSeq(files, LAMBDA f : f.wrapped)[n].fd]

\* C15: a slot whose descriptor cannot be wrapped is skipped without error:
\* the step that skips it raises no error and moves on to the next slot, every
\* remaining slot is processed, no error of the call comes from a skipped
\* slot, and when config.listeners succeeds the result holds the wrapped
\* slots only, in order, followed by one listener per configured address.
C15_SkipIsNotFatal ==
    /\ [](/\ \A k \in Skipped : i >= k
          /\ (pc # "import" /\ Active(cfg) /\ ret.err # "failed to close file") =>
                 Len(files) = cfg.listenFds
          /\ ret.err = "failed to close file" =>
                 (files # <<>> /\ files[Len(files)].wrapped)
          /\ ret.err = "invalid listen address" =>
                 (parsed # <<>> /\ parsed[Len(parsed)].err # "nil")
          /\ (pc = "returned" /\ ret.err = "nil") =>
                 /\ ImportedFds = WrappedFds
                 /\ \A k \in Skipped :
                       \A n \in 1..Len(ret.ls) :
                           ret.ls[n].src = "fd" => ret.ls[n].idx # files[k].fd
                 /\ Len(ret.ls) = Cardinality(Wrapped) + Len(cfg.addresses))
    /\ [][(Len(files') = Len(files) + 1 /\ ~files'[Len(files')].wrapped) =>
              /\ pc' = "import"
              /\ i' = i + 1
              /\ ret' = ret
              /\ listeners' = listeners
              /\ closeCount' = closeCount]_vars

\* success with a skipped slot, a later wrapped slot and a bound address
C15_Witness ==
    /\ pc = "returned"
    /\ ret.err = "nil"
    /\ \E k \in Skipped : \E j \in Wrapped : k < j
    /\ \E n \in 1..Len(ret.ls) : ret.ls[n].src = "addr"

BoundIdx == {l.idx : l \in {x \in CreatedListeners : x.src = "addr"}}

\* C16: config.listeners stops at the first error and returns it: after a
\* failed import no address has been parsed or bound; after the parse or bind
\* failure of the k-th address the addresses before it were parsed and bound,
\* the k-th is the last one parsed, none after it is bound; and once an error
\* is set nothing more is imported, parsed or bound and the error stays.
C16_FirstErrorReturned ==
    /\ [](/\ ret.err # "nil" => pc \in {"returned", "exited"}
          /\ ret.err = "failed to close file" =>
                 /\ parsed = <<>>
                 /\ ai = 0
                 /\ BoundIdx = {}
          /\ ret.err \in {"invalid listen address", "failed to listen"} =>
                 /\ Len(parsed) = ai + 1
                 /\ \A n \in 1..ai : parsed[n].err = "nil"
                 /\ (parsed[ai + 1].err # "nil") = (ret.err = "invalid listen address")
                 /\ BoundIdx = 1..ai)
    /\ [][ret.err # "nil" =>
              /\ ret' = ret
              /\ parsed' = parsed
              /\ listeners' = listeners
              /\ closeCount' = closeCount
              /\ cloexec' = cloexec
              /\ i' = i
              /\ ai' = ai]_vars

\* an address failed to bind after an import, with a later address left
C16_Witness ==
    /\ pc = "returned"
    /\ ret.err = "failed to listen"
    /\ ai + 1 < Len(cfg.addresses)
    /\ Wrapped # {}

Started == pc \in {"spawn", "wait"}

Ended == \A n \in DOMAIN task : task[n] \in {"closed", "failed"}

\* C17: after a successful startup, once the signal has been delivered, every
\* serving goroutine eventually returns and the process eventually exits with
\* code 0, whatever the goroutines were doing when the signal came.
C17_SignalLeadsToExit ==
    (Started /\ ctxDone) ~> (pc = "exited" /\ exitCode = 0 /\ Ended)

\* the shutdown is under way while one goroutine serves and another has not
\* called srv.Serve yet
C17_Witness ==
    /\ pc = "spawn"
    /\ si < Len(ret.ls)
    /\ watcher = "draining"
    /\ \E n \in DOMAIN task : task[n] = "start"
    /\ \E n \in DOMAIN task : task[n] = "serving"
    /\ inflight > 0

AllFailed == si = Len(ret.ls) /\ \A n \in DOMAIN task : task[n] = "failed"

\* C18: once serving has started the process exits only after the signal was
\* received, and then with code 0; while no signal has come main stays at
\* <-ctx.Done(), also when every serving goroutine has ended abnormally: the
\* process is then alive with no listener serving, and exits with code 0
\* after the signal arrives.
C18_ExitOnlyAfterSignal ==
    /\ []((watcher # "none" /\ pc = "exited") => (ctxDone /\ exitCode = 0))
    /\ []((Started /\ ~ctxDone) => (pc = "spawn" /\ Running))
    /\ []((Started /\ ~ctxDone /\ AllFailed) =>
              /\ wg = 0
              /\ tracked = {}
              /\ \A n \in DOMAIN task : ~CanAccept(n) /\ closeCount[ret.ls[n]] = 1)
    /\ (Started /\ AllFailed /\ ctxDone) ~> (pc = "exited" /\ exitCode = 0)

\* every serving goroutine has failed and no signal has come
C18_Witness ==
    /\ pc = "spawn"
    /\ ~ctxDone
    /\ AllFailed
    /\ Len(ret.ls) >= 2
    /\ Running

ReturnedFds == {l.idx : l \in {x \in SeqToSet(ret.ls) : x.src = "fd"}}

ReturnedAddrs == {l.idx : l \in {x \in SeqToSet(ret.ls) : x.src = "addr"}}

\* C19: when config.listeners succeeds the deferred function closes nothing:
\* every listener created during the call is open and is returned once, and
\* the result holds one listener per wrapped inherited slot, none when the
\* activation is not for this process, and one per configured address.
C19_SuccessKeepsAll ==
    (pc = "returned" /\ ret.err = "nil") =>
        /\ \A l \in CreatedListeners : closeCount[l] = 0
        /\ SeqToSet(ret.ls) = CreatedListeners
        /\ Len(ret.ls) = Cardinality(CreatedListeners)
        /\ ReturnedFds = {files[k].fd : k \in Wrapped}
        /\ ~Active(cfg) => ReturnedFds = {}
        /\ ReturnedAddrs = 1..Len(cfg.addresses)
        /\ Len(ret.ls) = Cardinality(ReturnedFds) + Cardinality(ReturnedAddrs)

\* a successful call with a wrapped slot, a skipped slot and two addresses
C19_Witness ==
    /\ pc = "returned"
    /\ ret.err = "nil"
    /\ Wrapped # {}
    /\ Skipped # {}
    /\ Len(cfg.addresses) = 2
====
